---- MODULE Spec2Model ----
(***************************************************************************)
(* A model of pros-depot: the GitHub Action that builds a PROS depot       *)
(* (a JSON catalog of templates) from the release assets of a source       *)
(* repository and publishes it to a target branch.                         *)
(*                                                                         *)
(* The pure helpers of utils.ts are operators; run() and pushFile() of     *)
(* main.ts are a state machine with one action per awaited external call.  *)
(* The repositories (release assets, depot branch and file) are the        *)
(* environment and change through their own actions.                       *)
(***************************************************************************)
EXTENDS Integers, Sequences, FiniteSets, TLC

(***************************************************************************)
(* Bounds of the model.                                                    *)
(***************************************************************************)
\* Number of asset slots (distinct download URLs) of the source repository.
NumSlots == 2
\* Largest value of the environment's clock, in milliseconds.
MaxTime == 1
\* Largest number of uploads to the source repository's releases.
MaxUploads == 2
\* Largest number of runs of the action in one behaviour.
MaxRuns == 2
\* Longest catalog handed to the pure helpers.
MaxDepotLen == 2
\* Longest repository string handed to toRepositoryIdentifier.
MaxNameLen == 5
\* Most assets of a release handed to getDownloadableZips.
MaxAssets == 2

(***************************************************************************)
(* Values.                                                                 *)
(***************************************************************************)
\* JavaScript's null (and undefined, where the code treats them alike).
Null == [null |-> TRUE]

\* A JavaScript Date holds whole milliseconds; an ISO 8601 string may carry
\* more fractional digits. Instants written as strings are counted in
\* microseconds, Dates in milliseconds.
TicksPerMs == 1000

\* new Date(iso_string): the parse keeps the first three fractional digits.
NewDate(iso) == iso \div TicksPerMs

\* The ISO string GitHub's API gives for a millisecond instant.
ToISOString(ms) == ms * TicksPerMs

\* new Date(0)
Epoch == 0

BaseTemplateTag == "pros.conductor.templates.base_template.BaseTemplate"
ExternalTemplateTag == "pros.conductor.templates.external_template.ExternalTemplate"

\* Range of a sequence.
Range(s) == {s[i] : i \in DOMAIN s}

\* Array.prototype.filter
RECURSIVE SelectSeqBy(_, _)
SelectSeqBy(s, keep) ==
  IF s = <<>> THEN <<>>
  ELSE (IF Head(s) \in keep THEN <<Head(s)>> ELSE <<>>) \o SelectSeqBy(Tail(s), keep)

\* Array.prototype.flat (one level)
RECURSIVE Flat(_)
Flat(ss) == IF ss = <<>> THEN <<>> ELSE Head(ss) \o Flat(Tail(ss))

(***************************************************************************)
(* Strings that the code takes apart are sequences of one-character        *)
(* strings; all other strings are TLA+ strings.                            *)
(***************************************************************************)
\* String.prototype.includes for a one-character needle.
Includes(str, ch) == \E i \in DOMAIN str : str[i] = ch

\* String.prototype.split for a one-character separator.
RECURSIVE SplitFrom(_, _, _)
SplitFrom(str, ch, acc) ==
  IF str = <<>> THEN <<acc>>
  ELSE IF Head(str) = ch THEN <<acc>> \o SplitFrom(Tail(str), ch, <<>>)
  ELSE SplitFrom(Tail(str), ch, Append(acc, Head(str)))

\* A split at the first separator only: what is before it and all that is
\* after it.
SplitAtFirst(str, ch) ==
  IF ~Includes(str, ch) THEN << str >>
  ELSE LET first == CHOOSE i \in DOMAIN str :
                      str[i] = ch /\ \A j \in 1..(i - 1) : str[j] # ch
       IN << SubSeq(str, 1, first - 1), SubSeq(str, first + 1, Len(str)) >>

Split(str, ch) == SplitFrom(str, ch, <<>>)

\* endsWith for the suffix without its first character ("zip" for ".zip").
EndsWithTail(str, suffix) ==
  /\ Len(str) >= Len(suffix) - 1
  /\ SubSeq(str, Len(str) - Len(suffix) + 2, Len(str)) = Tail(suffix)

\* String.prototype.endsWith
EndsWith(str, suffix) ==
  /\ Len(str) >= Len(suffix)
  /\ SubSeq(str, Len(str) - Len(suffix) + 1, Len(str)) = suffix

DotZip == <<".", "z", "i", "p">>

\* A thrown Error, and a value returned by a function that may throw.
Threw == [threw |-> TRUE]

Return(v) == [threw |-> FALSE, value |-> v]

(***************************************************************************)
(* utils.ts                                                                *)
(***************************************************************************)
\* toRepositoryIdentifier: throws without a '/', else the first two parts of
\* the split (a missing second part cannot occur once a '/' is present).
toRepositoryIdentifier(owner_and_repo_name) ==
  IF ~Includes(owner_and_repo_name, "/") THEN Threw
  ELSE LET parts == Split(owner_and_repo_name, "/")
       IN Return([owner |-> parts[1], repo |-> parts[2]])

\* getDownloadableZips: one candidate per asset whose name ends in ".zip".
RECURSIVE ZipsOfAssets(_, _)
ZipsOfAssets(assets, prerelease) ==
  IF assets = <<>> THEN <<>>
  ELSE LET asset == Head(assets)
           rest == ZipsOfAssets(Tail(assets), prerelease)
       IN IF EndsWith(asset.name, DotZip)
          THEN << [asset_id |-> asset.id,
                   download_url |-> asset.browser_download_url,
                   updated_at |-> asset.updated_at,
                   prerelease |-> prerelease,
                   result |-> Null] >> \o rest
          ELSE rest

getDownloadableZips(release) == ZipsOfAssets(release.assets, release.prerelease)

\* hasBeenUpdatedAfter: new Date(zip.updated_at) > target_date
hasBeenUpdatedAfter(zip, target_date) == NewDate(zip.updated_at) > target_date

\* convertExternalTemplateToBaseTemplate with the description's own metadata
\* carried over.
convertKeepingMetadata(zip, external_template) ==
  LET template_data == external_template.py_state
  IN [metadata |-> template_data.metadata,
      name |-> template_data.name,
      py_object |-> BaseTemplateTag,
      supported_kernels |-> template_data.supported_kernels,
      target |-> template_data.target,
      version |-> template_data.version]

\* convertExternalTemplateToBaseTemplate
convertExternalTemplateToBaseTemplate(zip, external_template) ==
  LET template_data == external_template.py_state
  IN [metadata |-> [location |-> zip.download_url],
      name |-> template_data.name,
      py_object |-> BaseTemplateTag,
      supported_kernels |-> template_data.supported_kernels,
      target |-> template_data.target,
      version |-> template_data.version]

\* new Map(depot.map(item => [item.metadata.location, item])): a later entry
\* of the same location replaces an earlier one.
RECURSIVE MapOfDepot(_)
MapOfDepot(depot) ==
  IF depot = <<>> THEN <<>>
  ELSE LET item == depot[Len(depot)]
           before == MapOfDepot(SubSeq(depot, 1, Len(depot) - 1))
       IN [k \in (DOMAIN before) \cup {item.metadata.location} |->
             IF k = item.metadata.location THEN item ELSE before[k]]

\* getPreviousResult: depot_map.get(zip.download_url) ?? null
getPreviousResult(zip, depot_map) ==
  IF zip.download_url \in DOMAIN depot_map THEN depot_map[zip.download_url] ELSE Null

\* applyPreviousResult that stamps a candidate it resolves from the previous
\* depot with the depot's time.
applyPreviousResultStamping(zip, depot_map, depot_last_updated) ==
  IF hasBeenUpdatedAfter(zip, depot_last_updated)
  THEN [zip EXCEPT !.result = Null]
  ELSE [zip EXCEPT !.result = getPreviousResult(zip, depot_map),
                   !.updated_at = ToISOString(depot_last_updated)]

\* applyPreviousResult that only fills in a result that is not set yet, and
\* clears one that is.
applyPreviousResultUnlessSet(zip, depot_map, depot_last_updated) ==
  [zip EXCEPT !.result =
     IF hasBeenUpdatedAfter(zip, depot_last_updated) \/ zip.result # Null
     THEN Null
     ELSE getPreviousResult(zip, depot_map)]

\* applyPreviousResult: { ...zip, result: newer ? null : previous }
applyPreviousResult(zip, depot_map, depot_last_updated) ==
  [zip EXCEPT !.result =
     IF hasBeenUpdatedAfter(zip, depot_last_updated)
     THEN Null
     ELSE getPreviousResult(zip, depot_map)]

\* getIncludeStrategy with the empty input taken for the default, 'all'.
getIncludeStrategyOrDefault(input) ==
  IF input = "all" \/ input = "stable-only" \/ input = "prerelease-only"
  THEN Return(input)
  ELSE IF input = "" THEN Return("all") ELSE Threw

\* getIncludeStrategy: the input itself for the three literals, else throws.
getIncludeStrategy(input) ==
  IF input = "all" \/ input = "stable-only" \/ input = "prerelease-only"
  THEN Return(input)
  ELSE Threw

\* shouldIncludeZip without the case of 'prerelease-only', which falls to the
\* default.
shouldIncludeZipStableOrAll(zip, include_strategy) ==
  IF include_strategy = "stable-only" THEN ~zip.prerelease
  ELSE TRUE

\* shouldIncludeZip
shouldIncludeZip(zip, include_strategy) ==
  IF include_strategy = "stable-only" THEN ~zip.prerelease
  ELSE IF include_strategy = "prerelease-only" THEN zip.prerelease
  ELSE TRUE

\* JSON.stringify of a catalog entry: its values in key order.
JSONStringify(item) ==
  << item.metadata.location, item.name, item.py_object,
     item.supported_kernels, item.target, item.version >>

GenericMessage == << "Update one or more version(s)" >>

ReleaseMessage(version) == << "Release version ", version >>

\* The loop of getCommitMessage: st = the old map's remaining keys and the
\* two counters after the entries visited so far.
RECURSIVE DiffScan(_, _, _)
DiffScan(new_depot, old_depot_map, st) ==
  IF new_depot = <<>> THEN st
  ELSE LET new_item == Head(new_depot)
           loc == new_item.metadata.location
           found == loc \in st.keys
           st2 == [keys |-> st.keys \ {loc},
                   added_count |->
                     IF ~found THEN st.added_count + 1 ELSE st.added_count,
                   updated_count |->
                     IF found /\ JSONStringify(old_depot_map[loc]) # JSONStringify(new_item)
                     THEN st.updated_count + 1 ELSE st.updated_count]
       IN DiffScan(Tail(new_depot), old_depot_map, st2)

\* getCommitMessage of the earlier main.ts: no content comparison, and a
\* count taken from the two lengths.
getCommitMessageByLength(old_depot, new_depot) ==
  LET updated_count == Len(new_depot) - Len(old_depot)
      old_depot_list == {old_depot[i].metadata.location : i \in DOMAIN old_depot}
      added_templates ==
        SelectSeqBy(new_depot,
                    {t \in Range(new_depot) : t.metadata.location \notin old_depot_list})
  IN IF Len(added_templates) = 1
     THEN ReleaseMessage(added_templates[1].version)
     ELSE << "Update ", ToString(updated_count), " version(s)" >>

\* getCommitMessage
getCommitMessage(old_depot, new_depot) ==
  LET old_depot_map == MapOfDepot(old_depot)
      st == DiffScan(new_depot, old_depot_map,
                     [keys |-> DOMAIN old_depot_map, added_count |-> 0, updated_count |-> 0])
      removed_count == Cardinality(st.keys)
  IN IF st.added_count = 1 /\ st.updated_count = 0 /\ removed_count = 0
     THEN ReleaseMessage(new_depot[1].version)
     ELSE GenericMessage

(***************************************************************************)
(* main.ts: pure parts of run().                                           *)
(***************************************************************************)
\* JSON.stringify(new_depot, null, 2), and what any other text is.
\* core.getInput('push') === 'true', with any other input standing for true.
IsPushUnlessFalse(input) == input # "false"

\* core.getInput('push') === 'true'
IsPush(input) == input = "true"

\* The inputs target_branch and target_path, at their defaults.
TargetBranch == "depot"

TargetPath == "depot.json"

\* The input commit_message as a sequence of pieces, "%MESSAGE%" being the
\* placeholder: the default, and the README's example.
DefaultCommitMessage == << "%MESSAGE%" >>

CommitMessageInputs == { DefaultCommitMessage, << ":tada: ", "%MESSAGE%" >> }

\* The old_sha argument of pushFile with the previous file's hash left out.
OldShaOmitted(depot_file) == Null

\* curr_depot_file?.sha ?? null
OldShaOf(depot_file) == IF depot_file # Null THEN depot_file.sha ELSE Null

\* getOctokit: auth is core.getInput('github_token') || process.env.GITHUB_TOKEN
\* || '' (the action's token input is not read).
getOctokit(token_input, github_token_input, env_github_token) ==
  [auth |-> IF github_token_input # "" THEN github_token_input
            ELSE IF env_github_token # "" THEN env_github_token
            ELSE ""]

StringifyDepot(depot) == [json |-> "depot", value |-> depot]

NotJSON == [json |-> "none"]

\* parseDepot: <<catalog>> when the text is a JSON array of catalog entries,
\* else <<>> for null.
parseDepot(content) == IF content.json = "depot" THEN << content.value >> ELSE <<>>

\* parseDepot(curr_depot_file?.content ?? '[]') ?? []
CurrDepotOf(depot_file) ==
  LET content == IF depot_file # Null THEN depot_file.content ELSE StringifyDepot(<<>>)
      parsed == parseDepot(content)
  IN IF parsed = <<>> THEN <<>> ELSE parsed[1]

\* The last-modified time taken only from a file that holds a depot.
LastUpdatedOfDepot(depot_file) ==
  IF depot_file # Null /\ parseDepot(depot_file.content) # <<>>
  THEN depot_file.last_modified
  ELSE Epoch

\* curr_depot_file?.last_modified ?? new Date(0)
LastUpdatedOf(depot_file) ==
  IF depot_file # Null THEN depot_file.last_modified ELSE Epoch

\* The exclusion filter as its comment, the README and the design describe it:
\* drop what is NOT newer than the depot and has no previous result.
notExcludedAsDocumented(zip, depot_last_updated, depot_map, depot_file) ==
  ~( ~hasBeenUpdatedAfter(zip, depot_last_updated)
     /\ getPreviousResult(zip, depot_map) = Null
     /\ depot_file # Null )

\* The exclusion filter of the earlier main.ts, which did not ask whether a
\* previous file was obtained.
notExcludedIgnoringFile(zip, depot_last_updated, depot_map, depot_file) ==
  ~( hasBeenUpdatedAfter(zip, depot_last_updated)
     /\ getPreviousResult(zip, depot_map) = Null )

\* The second .filter of run(): "Remove the zips that we checked before and
\* were not templates".
notExcluded(zip, depot_last_updated, depot_map, depot_file) ==
  ~( hasBeenUpdatedAfter(zip, depot_last_updated)
     /\ getPreviousResult(zip, depot_map) = Null
     /\ depot_file # Null )

\* releases.map(getDownloadableZips).flat()
RECURSIVE AllZips(_)
AllZips(rels) ==
  IF rels = <<>> THEN <<>> ELSE getDownloadableZips(Head(rels)) \o AllZips(Tail(rels))

\* ... .filter(zip => shouldIncludeZip(zip, include_strategy))
RECURSIVE Included(_, _)
Included(zs, strategy) ==
  IF zs = <<>> THEN <<>>
  ELSE (IF shouldIncludeZip(Head(zs), strategy) THEN <<Head(zs)>> ELSE <<>>)
       \o Included(Tail(zs), strategy)

\* The candidates resolved, and after them the entries of the previous depot
\* that no candidate stands for, carried over as they are.
RECURSIVE ResolvedKeepingPrevious(_, _, _, _)
ResolvedKeepingPrevious(zs, depot_last_updated, depot_map, depot_file) ==
  IF zs = <<>>
  THEN IF DOMAIN depot_map = {} THEN <<>>
       ELSE LET url == CHOOSE u \in DOMAIN depot_map : TRUE
            IN << [asset_id |-> << 0, 0 >>,
                   download_url |-> url,
                   updated_at |-> ToISOString(depot_last_updated),
                   prerelease |-> FALSE,
                   result |-> depot_map[url]] >>
               \o ResolvedKeepingPrevious(<<>>, depot_last_updated,
                     [k \in DOMAIN depot_map \ {url} |-> depot_map[k]], depot_file)
  ELSE (IF notExcluded(Head(zs), depot_last_updated, depot_map, depot_file)
        THEN << applyPreviousResult(Head(zs), depot_map, depot_last_updated) >>
        ELSE <<>>)
       \o ResolvedKeepingPrevious(Tail(zs), depot_last_updated,
             [k \in DOMAIN depot_map \ {Head(zs).download_url} |-> depot_map[k]],
             depot_file)

\* ... .filter(exclusion).map(applyPreviousResult)
RECURSIVE Resolved(_, _, _, _)
Resolved(zs, depot_last_updated, depot_map, depot_file) ==
  IF zs = <<>> THEN <<>>
  ELSE (IF notExcluded(Head(zs), depot_last_updated, depot_map, depot_file)
        THEN << applyPreviousResult(Head(zs), depot_map, depot_last_updated) >>
        ELSE <<>>)
       \o Resolved(Tail(zs), depot_last_updated, depot_map, depot_file)

\* The whole candidate pipeline of run().
Pipeline(rels, strategy, depot_last_updated, depot_map, depot_file) ==
  Resolved(Included(AllZips(rels), strategy), depot_last_updated, depot_map, depot_file)

\* The number of candidates, fetched or not.
NumOfCandidates(zs) == Len(zs)

\* zips.filter(zip => !zip.result).length
NumOfFetching(zs) == Cardinality({i \in DOMAIN zs : zs[i].result = Null})

\* The templates up to the first null: what is left of the loop's results
\* when a failed candidate ends the processing.
RECURSIVE NonNullPrefix(_)
NonNullPrefix(ts) ==
  IF ts = <<>> \/ Head(ts) = Null THEN <<>>
  ELSE <<Head(ts)>> \o NonNullPrefix(Tail(ts))

\* fetched_templates.filter(template => template !== null)
RECURSIVE NonNull(_)
NonNull(ts) ==
  IF ts = <<>> THEN <<>>
  ELSE (IF Head(ts) # Null THEN <<Head(ts)>> ELSE <<>>) \o NonNull(Tail(ts))

(***************************************************************************)
(* The environment: the source repository's releases and the target        *)
(* repository's depot branch.                                              *)
(***************************************************************************)
Slots == 1..NumSlots

\* Two releases: the odd slots belong to the first, a stable release, the
\* even slots to the second, a prerelease.
ReleaseOf(slot) == IF slot % 2 = 1 THEN 1 ELSE 2

IsPrerelease(release) == release = 2

\* browser_download_url: release tag and file name, one per slot.
UrlOf(slot) == "https://example.com/" \o ToString(slot)

\* What an upload can be: a zip with a valid template.pros, a zip that is no
\* template (in the odd slots it has no template.pros, in the even slots its
\* template.pros fails the schema), or a file that is no zip.
KindsOf(slot) == {"valid", IF slot % 2 = 1 THEN "nodesc" ELSE "invalid", "other"}

NameOf(kind) ==
  IF kind = "other" THEN <<"n", "o", "t", "e", "s">> ELSE <<"t">> \o DotZip

\* template.pros of the gen-th upload of a slot; its own metadata is not the
\* download URL.
ExternalTemplateOf(slot, gen) ==
  [py_object |-> ExternalTemplateTag,
   py_state |-> [metadata |-> [location |-> "self-reported"],
                 name |-> "template",
                 supported_kernels |-> "^4.1.0",
                 system_files |-> <<"firmware/lib.a">>,
                 target |-> "v5",
                 user_files |-> <<"src/main.cpp">>,
                 version |-> ToString(gen) \o ".0.0"]]

NoAsset == [gen |-> 0, updated_at |-> 0, kind |-> "other"]

OkRepo == <<"o", "/", "r">>

BadRepo == <<"o", "r">>

VARIABLES
  \* the environment
  now,            \* the clock, in milliseconds
  assets,         \* slot -> the asset uploaded there (gen 0: none yet)
  uploads,        \* uploads so far
  branch,         \* whether the target branch exists
  file,           \* the depot file on the target branch, or Null
  \* the action's inputs and environment variables
  include_input, push_input, commit_message_input, target_repo, source_repo,
  \* run()
  pc,             \* the external call run() is waiting for, or "idle"
  run_no,         \* runs started so far
  outcome,        \* how the last run ended
  include_strategy, is_push,
  curr_depot_file, curr_depot_last_updated, curr_depot, curr_depot_map,
  releases, zips, fetched_templates, new_depot, output,
  \* pushFile()
  push_args, treeSHA, new_commit,
  \* history
  calls,          \* the external calls of the current run, with their answers
  prev,           \* what the run before the current one did
  \* the helpers of utils.ts taken alone
  call            \* the last application of a helper: arguments and result

envVars == << now, assets, uploads, branch, file >>
inputVars == << include_input, push_input, commit_message_input, target_repo, source_repo >>
runVars == << pc, run_no, outcome, include_strategy, is_push, curr_depot_file,
              curr_depot_last_updated, curr_depot, curr_depot_map, releases, zips,
              fetched_templates, new_depot, output, push_args, treeSHA, new_commit,
              calls, prev >>

\* The response of repos.listReleases.
RECURSIVE AssetsOfRelease(_, _)
AssetsOfRelease(release, slot) ==
  IF slot > NumSlots THEN <<>>
  ELSE (IF ReleaseOf(slot) = release /\ assets[slot].gen > 0
        THEN << [id |-> << slot, assets[slot].gen >>,
                 browser_download_url |-> UrlOf(slot),
                 updated_at |-> assets[slot].updated_at,
                 name |-> NameOf(assets[slot].kind)] >>
        ELSE <<>>)
       \o AssetsOfRelease(release, slot + 1)

ReleasesData ==
  << [prerelease |-> IsPrerelease(1), assets |-> AssetsOfRelease(1, 1)],
     [prerelease |-> IsPrerelease(2), assets |-> AssetsOfRelease(2, 1)] >>

\* The blob hash of a file content.
ShaOf(content) == [sha_of |-> content]

NoPush == [pushing |-> FALSE]

NoCommit == [sha |-> Null, date |-> 0]

\* The status recorded for a failed call whose status the code does not read.
AnyError == 500

Call(api, arg, status, yield) == [api |-> api, arg |-> arg, status |-> status, yield |-> yield]

\* The asset ids the calls fetched, and those whose fetch gave no template.
Fetched(cs) == {cs[i].arg : i \in {j \in DOMAIN cs : cs[j].api = "getReleaseAsset"}}

FetchedInVain(cs) ==
  {cs[i].arg : i \in {j \in DOMAIN cs : cs[j].api = "getReleaseAsset" /\ cs[j].yield = "null"}}

\* The include_prereleases inputs: the three strategies and another word.
IncludeInputs == {"all", "stable-only", "prerelease-only", "nightly"}

Init ==
  /\ now = 0
  /\ assets = [s \in Slots |-> NoAsset]
  /\ uploads = 0
  /\ branch \in BOOLEAN
  /\ file = Null
  /\ include_input \in IncludeInputs
  /\ push_input \in {"true", "false", "yes"}
  /\ commit_message_input \in CommitMessageInputs
  /\ target_repo \in {OkRepo, BadRepo}
  /\ source_repo \in {OkRepo, BadRepo}
  /\ pc = "idle"
  /\ run_no = 0
  /\ outcome = "none"
  /\ include_strategy = "none"
  /\ is_push = FALSE
  /\ curr_depot_file = Null
  /\ curr_depot_last_updated = Epoch
  /\ curr_depot = <<>>
  /\ curr_depot_map = <<>>
  /\ releases = <<>>
  /\ zips = <<>>
  /\ fetched_templates = <<>>
  /\ new_depot = <<>>
  /\ output = Null
  /\ push_args = NoPush
  /\ treeSHA = Null
  /\ new_commit = NoCommit
  /\ calls = <<>>
  /\ prev = [failed |-> {}, published |-> FALSE, releases |-> <<>>, strategy |-> "none"]
  /\ call = [fn |-> "none"]

(***************************************************************************)
(* The environment's actions.  run() reads the assets only when             *)
(* listReleases and getReleaseAsset answer, and the clock only when its    *)
(* commit is made, so the environment moves at the three points where the  *)
(* order of its steps against those reads differs: between runs (before   *)
(* the listing), during the fetch loop, and between the last fetch and the *)
(* commit.                                                                 *)
(***************************************************************************)
EnvMayMove == pc \in {"idle", "createBaseTemplate", "getBranch"}

Tick ==
  /\ EnvMayMove
  /\ now < MaxTime
  /\ now' = now + 1
  /\ UNCHANGED << assets, uploads, branch, file >>
  /\ UNCHANGED << inputVars, call >>
  /\ UNCHANGED runVars

\* A file is uploaded to a slot, or re-uploaded (deleted and uploaded again
\* under the same name): a new asset id, the same download URL.
Upload(slot, kind) ==
  /\ EnvMayMove
  /\ uploads < MaxUploads
  /\ uploads' = uploads + 1
  /\ assets' = [assets EXCEPT ![slot] =
                  [gen |-> assets[slot].gen + 1,
                   updated_at |-> ToISOString(now),
                   kind |-> kind]]
  /\ UNCHANGED << now, branch, file >>
  /\ UNCHANGED << inputVars, call >>
  /\ UNCHANGED runVars

\* The workflow is edited between two runs: the next run reads another
\* include_prereleases input.
Reconfigure(input) ==
  /\ pc = "idle"
  /\ 0 < run_no /\ run_no < MaxRuns
  /\ input # include_input
  /\ include_input' = input
  /\ UNCHANGED << push_input, commit_message_input, target_repo, source_repo, call >>
  /\ UNCHANGED envVars
  /\ UNCHANGED runVars

\* What another writer of the target branch may put at the depot's path: a
\* text that is no JSON, JSON that is no depot, or a depot (the empty one).
OtherContents == { NotJSON, [json |-> "object"], StringifyDepot(<<>>) }

\* Another writer (another run of the action, or anyone) commits the file,
\* at any moment of a run or between runs, creating the branch if need be.
OtherWrite(content) ==
  /\ pc # "idle" \/ run_no < MaxRuns
  /\ LET written == [sha |-> ShaOf(content),
                     content |-> content,
                     date |-> ToISOString(now)]
     IN /\ written # file
        /\ file' = written
  /\ branch' = TRUE
  /\ UNCHANGED << now, assets, uploads >>
  /\ UNCHANGED << inputVars, call >>
  /\ UNCHANGED runVars

(***************************************************************************)
(* run()                                                                   *)
(***************************************************************************)
\* run() ends on a promise that never settles: the process stays.
EndRunPending(how) ==
  /\ pc' = "pending"
  /\ outcome' = how

\* How a run ends: back to idle, its locals kept as they are.
EndRun(how) ==
  /\ pc' = "idle"
  /\ outcome' = how

\* run() up to its first await: the inputs are read and validated, and
\* getFileContent is called.
StartRun ==
  /\ pc = "idle"
  /\ run_no < MaxRuns
  /\ run_no' = run_no + 1
  /\ prev' = [failed |-> FetchedInVain(calls),
              published |-> (outcome = "pushed"),
              releases |-> releases,
              strategy |-> include_strategy]
  /\ calls' = <<>>
  /\ curr_depot_file' = Null
  /\ curr_depot_last_updated' = Epoch
  /\ curr_depot' = <<>>
  /\ curr_depot_map' = <<>>
  /\ releases' = <<>>
  /\ zips' = <<>>
  /\ fetched_templates' = <<>>
  /\ new_depot' = <<>>
  /\ output' = Null
  /\ push_args' = NoPush
  /\ treeSHA' = Null
  /\ new_commit' = NoCommit
  /\ LET strategy == getIncludeStrategy(include_input)
         target_repo_rid == toRepositoryIdentifier(target_repo)
     IN IF strategy.threw
        THEN /\ EndRun("threw")
             /\ include_strategy' = "none"
             /\ is_push' = FALSE
        ELSE /\ include_strategy' = strategy.value
             /\ is_push' = IsPush(push_input)
             /\ IF target_repo_rid.threw
                THEN EndRun("threw")
                ELSE pc' = "getFileContent" /\ outcome' = "running"
  /\ UNCHANGED envVars
  /\ UNCHANGED << inputVars, call >>

\* getFileContent returns (file_content, or Null after any error), and run()
\* goes on to the call of listReleases.
AfterGetFileContent(file_content, status) ==
  /\ calls' = Append(calls, Call("getContent", <<>>, status, "none"))
  /\ curr_depot_file' = file_content
  /\ curr_depot_last_updated' = LastUpdatedOf(file_content)
  /\ curr_depot' = CurrDepotOf(file_content)
  /\ curr_depot_map' = MapOfDepot(CurrDepotOf(file_content))
  /\ IF toRepositoryIdentifier(source_repo).threw
     THEN EndRun("threw")
     ELSE pc' = "listReleases" /\ UNCHANGED outcome
  /\ UNCHANGED << run_no, include_strategy, is_push, releases, zips,
                  fetched_templates, new_depot, output, push_args, treeSHA, new_commit, prev >>
  /\ UNCHANGED envVars
  /\ UNCHANGED << inputVars, call >>

\* The file is there: its hash, its text and the date of its last commit.
GetFileContentOk ==
  /\ pc = "getFileContent"
  /\ branch /\ file # Null
  /\ AfterGetFileContent([sha |-> file.sha,
                          content |-> file.content,
                          last_modified |-> NewDate(file.date)], 200)

\* The error of a failed getContent: not found when there is no such branch
\* or file, otherwise another error (which, as it can also happen with no
\* file there, leaves run() in the same state as the 404 does).
ReadError == IF branch /\ file # Null THEN AnyError ELSE 404

\* getFileContent rethrowing the error of its calls: run() ends on it.
GetFileContentThrows ==
  /\ pc = "getFileContent"
  /\ calls' = Append(calls, Call("getContent", <<>>, ReadError, "none"))
  /\ EndRun("threw")
  /\ UNCHANGED << run_no, include_strategy, is_push, curr_depot_file,
                  curr_depot_last_updated, curr_depot, curr_depot_map, releases, zips,
                  fetched_templates, new_depot, output, push_args, treeSHA, new_commit, prev >>
  /\ UNCHANGED envVars
  /\ UNCHANGED << inputVars, call >>

\* No such branch or file (404), or any other error, which can happen at
\* any time: a warning, and null.
GetFileContentFails ==
  /\ pc = "getFileContent"
  /\ AfterGetFileContent(Null, ReadError)

\* listReleases fails and run() takes the null for an empty list of
\* releases: nothing to fetch, the run ends as up to date.
ListReleasesFailsAsNone ==
  /\ pc = "listReleases"
  /\ calls' = Append(calls, Call("listReleases", <<>>, AnyError, "none"))
  /\ releases' = <<>>
  /\ zips' = <<>>
  /\ EndRun("uptodate")
  /\ UNCHANGED << run_no, include_strategy, is_push, curr_depot_file,
                  curr_depot_last_updated, curr_depot, curr_depot_map,
                  fetched_templates, new_depot, output, push_args, treeSHA, new_commit, prev >>
  /\ UNCHANGED envVars
  /\ UNCHANGED << inputVars, call >>

\* listReleases fails: setFailed, and the run is over.
ListReleasesFails ==
  /\ pc = "listReleases"
  /\ calls' = Append(calls, Call("listReleases", <<>>, AnyError, "none"))
  /\ EndRun("listfailed")
  /\ UNCHANGED << run_no, include_strategy, is_push, curr_depot_file,
                  curr_depot_last_updated, curr_depot, curr_depot_map, releases, zips,
                  fetched_templates, new_depot, output, push_args, treeSHA, new_commit, prev >>
  /\ UNCHANGED envVars
  /\ UNCHANGED << inputVars, call >>

\* listReleases returns: the candidates are computed; with nothing to fetch
\* the run is over, otherwise the loop over the candidates starts.
ListReleasesOk ==
  /\ pc = "listReleases"
  /\ calls' = Append(calls, Call("listReleases", <<>>, 200, "none"))
  /\ releases' = ReleasesData
  /\ LET zs == Pipeline(ReleasesData, include_strategy, curr_depot_last_updated,
                        curr_depot_map, curr_depot_file)
     IN /\ zips' = zs
        /\ IF NumOfFetching(zs) = 0
           THEN EndRun("uptodate")
           ELSE pc' = "createBaseTemplate" /\ UNCHANGED outcome
  /\ UNCHANGED << run_no, include_strategy, is_push, curr_depot_file,
                  curr_depot_last_updated, curr_depot, curr_depot_map,
                  fetched_templates, new_depot, output, push_args, treeSHA, new_commit, prev >>
  /\ UNCHANGED envVars
  /\ UNCHANGED << inputVars, call >>

\* The loop taking its candidates from the end of the list.
NextZipFromEnd == zips[Len(zips) - Len(fetched_templates)]

\* The candidate the loop of run() is at.
NextZip == zips[Len(fetched_templates) + 1]

\* One iteration of the loop, with pushFile left out when the new depot is
\* the previous one.
AfterCreateBaseTemplateUnlessSame(template) ==
  LET fts == Append(fetched_templates, template)
      depot == NonNull(fts)
  IN /\ fetched_templates' = fts
     /\ IF Len(fts) < Len(zips)
        THEN /\ UNCHANGED << pc, outcome, new_depot, output, push_args >>
        ELSE /\ new_depot' = depot
             /\ output' = StringifyDepot(depot)
             /\ IF ~is_push \/ depot = curr_depot
                THEN EndRun("skippush") /\ UNCHANGED push_args
                ELSE /\ push_args' =
                          [pushing |-> TRUE,
                           content |-> StringifyDepot(depot),
                           commit_message |-> getCommitMessage(curr_depot, depot),
                           branch |-> TargetBranch,
                           path |-> TargetPath,
                           old_sha |-> OldShaOf(curr_depot_file)]
                     /\ pc' = "getBranch"
                     /\ UNCHANGED outcome
     /\ UNCHANGED << run_no, include_strategy, is_push, curr_depot_file,
                     curr_depot_last_updated, curr_depot, curr_depot_map, releases,
                     zips, treeSHA, new_commit, prev >>
     /\ UNCHANGED envVars
     /\ UNCHANGED << inputVars, call >>

\* One iteration of the loop has its template (or null); after the last one
\* the new depot is assembled and output, and pushFile is called if asked.
AfterCreateBaseTemplate(template) ==
  LET fts == Append(fetched_templates, template)
      depot == NonNull(fts)
  IN /\ fetched_templates' = fts
     /\ IF Len(fts) < Len(zips)
        THEN /\ UNCHANGED << pc, outcome, new_depot, output, push_args >>
        ELSE /\ new_depot' = depot
             /\ output' = StringifyDepot(depot)
             /\ IF ~is_push
                THEN EndRun("skippush") /\ UNCHANGED push_args
                ELSE /\ push_args' =
                          [pushing |-> TRUE,
                           content |-> StringifyDepot(depot),
                           commit_message |-> getCommitMessage(curr_depot, depot),
                           branch |-> TargetBranch,
                           path |-> TargetPath,
                           old_sha |-> OldShaOf(curr_depot_file)]
                     /\ pc' = "getBranch"
                     /\ UNCHANGED outcome
     /\ UNCHANGED << run_no, include_strategy, is_push, curr_depot_file,
                     curr_depot_last_updated, curr_depot, curr_depot_map, releases,
                     zips, treeSHA, new_commit, prev >>
     /\ UNCHANGED envVars
     /\ UNCHANGED << inputVars, call >>

\* createBaseTemplate with a previous result: no download.
UsePreviousResult ==
  /\ pc = "createBaseTemplate"
  /\ NextZip.result # Null
  /\ UNCHANGED calls
  /\ AfterCreateBaseTemplate(NextZip.result)

\* createBaseTemplate without one: the asset is downloaded and template.pros
\* is read, validated and converted.
FetchTemplate ==
  /\ pc = "createBaseTemplate"
  /\ NextZip.result = Null
  /\ LET slot == NextZip.asset_id[1]
         gen == NextZip.asset_id[2]
     IN /\ assets[slot].gen = gen
        /\ IF assets[slot].kind = "valid"
           THEN /\ calls' = Append(calls, Call("getReleaseAsset", NextZip.asset_id, 200, "template"))
                /\ AfterCreateBaseTemplate(
                     convertExternalTemplateToBaseTemplate(NextZip, ExternalTemplateOf(slot, gen)))
           ELSE /\ calls' = Append(calls, Call("getReleaseAsset", NextZip.asset_id, 200, "null"))
                /\ AfterCreateBaseTemplate(Null)

\* The download fails and the candidate's entry of the previous depot, if
\* there is one, stands in for the template.
FetchTemplateFailsKeepingPrevious ==
  /\ pc = "createBaseTemplate"
  /\ NextZip.result = Null
  /\ calls' = Append(calls, Call("getReleaseAsset", NextZip.asset_id, AnyError, "null"))
  /\ AfterCreateBaseTemplate(getPreviousResult(NextZip, curr_depot_map))

\* The download fails: the asset is gone (404), or any other error, which
\* can happen at any time.
FetchTemplateFails ==
  /\ pc = "createBaseTemplate"
  /\ NextZip.result = Null
  /\ calls' = Append(calls, Call("getReleaseAsset", NextZip.asset_id, AnyError, "null"))
  /\ AfterCreateBaseTemplate(Null)

(***************************************************************************)
(* pushFile()                                                              *)
(***************************************************************************)
\* What every step of pushFile leaves alone.
PushFrame ==
  /\ UNCHANGED << run_no, include_strategy, is_push, curr_depot_file,
                  curr_depot_last_updated, curr_depot, curr_depot_map, releases, zips,
                  fetched_templates, new_depot, output, push_args, prev >>
  /\ UNCHANGED << inputVars, call >>

\* pushFile returns: true ends the run, false is reported with setFailed.
ReturnFromPush(success) == EndRun(IF success THEN "pushed" ELSE "pushfailed")

\* The arguments of createOrUpdateFileContents: sha is old_sha ?? undefined.
\* The write sent with the hash of the file as it is when the write is made.
WriteArgsLatestSha ==
  [branch |-> push_args.branch,
   path |-> push_args.path,
   message |-> push_args.commit_message,
   content |-> push_args.content,
   sha |-> IF file # Null THEN file.sha ELSE Null]

WriteArgs ==
  [branch |-> push_args.branch,
   path |-> push_args.path,
   message |-> push_args.commit_message,
   content |-> push_args.content,
   sha |-> push_args.old_sha]

\* The arguments of createTree: one blob at path, no base tree.
OrphanTree(path, content) ==
  [base_tree |-> Null,
   tree |-> << [path |-> path, mode |-> "100644", type |-> "blob", content |-> content] >>]

\* The arguments of createCommit with the parent list holding the head of
\* the default branch.
NewCommitOnHead(message, tree) ==
  [message |-> message, tree |-> tree, parents |-> << "HEAD" >>]

\* The arguments of createCommit: the tree just created, no parents.
NewCommitArgs(message, tree) ==
  [message |-> message, tree |-> tree, parents |-> <<>>]

\* The arguments of createRef.
NewRefArgs(branch_name, sha) == [ref |-> "refs/heads/" \o branch_name, sha |-> sha]

\* The object a hash names.
HashOf(object) == [hash_of |-> object]

\* The catch of pushFile's try block with every error taken for a missing
\* branch.
CatchEveryErrorAsNotFound(status) == pc' = "createTree" /\ UNCHANGED outcome

\* The catch of pushFile's try block trying again after an error other than
\* 404.
CatchAndRetry(status) ==
  IF status = 404
  THEN pc' = "createTree" /\ UNCHANGED outcome
  ELSE pc' = "getBranch" /\ UNCHANGED outcome

\* The catch of pushFile's try block: a 404 starts the orphan branch with
\* createTree, any other error returns false.
CatchInPushFile(status) ==
  IF status = 404
  THEN pc' = "createTree" /\ UNCHANGED outcome
  ELSE ReturnFromPush(FALSE)

\* getBranch answers that the branch exists: createOrUpdateFileContents is called.
GetBranchOk ==
  /\ pc = "getBranch"
  /\ branch
  /\ calls' = Append(calls, Call("getBranch", << push_args.branch >>, 200, "none"))
  /\ pc' = "createOrUpdateFileContents"
  /\ UNCHANGED << outcome, treeSHA, new_commit >>
  /\ UNCHANGED envVars
  /\ PushFrame

\* getBranch fails: not found (no such branch), or any other error.
GetBranchFails(status) ==
  /\ pc = "getBranch"
  /\ status = 404 => ~branch
  /\ calls' = Append(calls, Call("getBranch", << push_args.branch >>, status, "none"))
  /\ CatchInPushFile(status)
  /\ UNCHANGED << treeSHA, new_commit >>
  /\ UNCHANGED envVars
  /\ PushFrame

\* The hash the write carries matches the file as it is now.
ShaMatches ==
  IF file = Null THEN WriteArgs.sha = Null ELSE WriteArgs.sha = file.sha

\* createOrUpdateFileContents succeeds: a new commit on the branch.
WriteFileOk ==
  /\ pc = "createOrUpdateFileContents"
  /\ branch
  /\ ShaMatches
  /\ calls' = Append(calls, Call("createOrUpdateFileContents", << WriteArgs >>, 200, "none"))
  /\ file' = [sha |-> ShaOf(push_args.content),
              content |-> push_args.content,
              date |-> ToISOString(now)]
  /\ ReturnFromPush(TRUE)
  /\ UNCHANGED << now, assets, uploads, branch, treeSHA, new_commit >>
  /\ PushFrame

\* createOrUpdateFileContents fails: the hash does not match (409, or 422
\* when none was sent for an existing file), the resource is not found or
\* not accessible (404), or any other error.
WriteFileFails(status) ==
  /\ pc = "createOrUpdateFileContents"
  /\ status \in {409, 422} => ~ShaMatches
  /\ calls' = Append(calls, Call("createOrUpdateFileContents", << WriteArgs >>, status, "none"))
  /\ CatchInPushFile(status)
  /\ UNCHANGED << treeSHA, new_commit >>
  /\ UNCHANGED envVars
  /\ PushFrame

CreateTreeOk ==
  /\ pc = "createTree"
  /\ LET args == OrphanTree(push_args.path, push_args.content)
     IN /\ calls' = Append(calls, Call("createTree", << args >>, 201, "none"))
        /\ treeSHA' = [sha |-> HashOf(args)]
  /\ pc' = "createCommit"
  /\ UNCHANGED << outcome, new_commit >>
  /\ UNCHANGED envVars
  /\ PushFrame

\* The commit is created now, with no parents; its date is the depot's
\* last-modified time once the branch points at it.
CreateCommitOk ==
  /\ pc = "createCommit"
  /\ LET args == NewCommitArgs(push_args.commit_message, treeSHA.sha)
     IN /\ calls' = Append(calls, Call("createCommit", << args >>, 201, "none"))
        /\ new_commit' = [sha |-> HashOf(args), date |-> ToISOString(now)]
  /\ pc' = "createRef"
  /\ UNCHANGED << outcome, treeSHA >>
  /\ UNCHANGED envVars
  /\ PushFrame

CreateRefOk ==
  /\ pc = "createRef"
  /\ ~branch
  /\ calls' = Append(calls, Call("createRef", << NewRefArgs(push_args.branch, new_commit.sha) >>,
                              201, "none"))
  /\ branch' = TRUE
  /\ LET blob == new_commit.sha.hash_of.tree.hash_of.tree[1]
     IN file' = [sha |-> ShaOf(blob.content),
                 content |-> blob.content,
                 date |-> new_commit.date]
  /\ ReturnFromPush(TRUE)
  /\ UNCHANGED << now, assets, uploads, treeSHA, new_commit >>
  /\ PushFrame

\* The arguments of the bootstrap call pushFile is at.
BootstrapArgs ==
  CASE pc = "createTree" -> OrphanTree(push_args.path, push_args.content)
    [] pc = "createCommit" -> NewCommitArgs(push_args.commit_message, treeSHA.sha)
    [] pc = "createRef" -> NewRefArgs(push_args.branch, new_commit.sha)

\* Any step of the bootstrap fails, which can happen at any time (and does
\* when createRef finds the branch there): pushFile returns false.
BootstrapFails ==
  /\ pc \in {"createTree", "createCommit", "createRef"}
  /\ calls' = Append(calls, Call(pc, << BootstrapArgs >>, AnyError, "none"))
  /\ ReturnFromPush(FALSE)
  /\ UNCHANGED << treeSHA, new_commit >>
  /\ UNCHANGED envVars
  /\ PushFrame

Next ==
  \/ Tick
  \/ \E slot \in Slots : \E kind \in KindsOf(slot) : Upload(slot, kind)
  \/ \E input \in IncludeInputs : Reconfigure(input)
  \/ StartRun
  \/ GetFileContentOk
  \/ GetFileContentFails
  \/ ListReleasesOk
  \/ ListReleasesFails
  \/ UsePreviousResult
  \/ FetchTemplate
  \/ FetchTemplateFails
  \/ GetBranchOk
  \/ \E status \in {403, 404, 500} : GetBranchFails(status)
  \/ WriteFileOk
  \/ \E status \in {404, 409, 422, 500} : WriteFileFails(status)
  \/ CreateTreeOk
  \/ CreateCommitOk
  \/ CreateRefOk
  \/ BootstrapFails

vars == << now, assets, uploads, branch, file, include_input, push_input,
           commit_message_input, target_repo,
           source_repo, pc, run_no, outcome, include_strategy, is_push,
           curr_depot_file, curr_depot_last_updated, curr_depot, curr_depot_map,
           releases, zips, fetched_templates, new_depot, output, push_args,
           treeSHA, new_commit, calls, prev, call >>

Spec == Init /\ [][Next]_vars

\* An external call of run() or pushFile() returns or fails, and the code
\* runs on to its next call or to its end.
Answer ==
  \/ GetFileContentOk
  \/ GetFileContentFails
  \/ ListReleasesOk
  \/ ListReleasesFails
  \/ UsePreviousResult
  \/ FetchTemplate
  \/ FetchTemplateFails
  \/ GetBranchOk
  \/ \E status \in {403, 404, 500} : GetBranchFails(status)
  \/ WriteFileOk
  \/ \E status \in {404, 409, 422, 500} : WriteFileFails(status)
  \/ CreateTreeOk
  \/ CreateCommitOk
  \/ CreateRefOk
  \/ BootstrapFails

\* The action set up to publish under its default commit message.
InitLive ==
  /\ Init
  /\ push_input = "true"
  /\ commit_message_input = DefaultCommitMessage

\* The runs of one workflow, which is not edited between them.
NextLive ==
  \/ Tick
  \/ \E slot \in Slots : \E kind \in KindsOf(slot) : Upload(slot, kind)
  \/ StartRun
  \/ Answer

\* The action set up to publish, from and to well-formed repositories, to a
\* branch that others write too.
InitShared ==
  /\ Init
  /\ include_input = "all"
  /\ push_input = "true"
  /\ commit_message_input = DefaultCommitMessage
  /\ target_repo = OkRepo
  /\ source_repo = OkRepo

NextShared ==
  \/ Tick
  \/ \E slot \in Slots : \E kind \in KindsOf(slot) : Upload(slot, kind)
  \/ \E content \in OtherContents : OtherWrite(content)
  \/ StartRun
  \/ Answer

SpecShared == InitShared /\ [][NextShared]_vars

\* run() with every external call answered in the end, one way or the other.
SpecLive == InitLive /\ [][NextLive]_vars /\ WF_vars(Answer)

(***************************************************************************)
(* The helpers of utils.ts applied to arguments drawn from bounded sets:    *)
(* one application in each behaviour.                                      *)
(***************************************************************************)
\* A candidate as getDownloadableZips makes it.
ZipOf(slot, gen, updated_at, prerelease) ==
  [asset_id |-> << slot, gen >>, download_url |-> UrlOf(slot),
   updated_at |-> updated_at, prerelease |-> prerelease, result |-> Null]

\* The catalog entries of the slots' uploads.
Entries ==
  { convertExternalTemplateToBaseTemplate(ZipOf(slot, gen, 0, FALSE),
                                          ExternalTemplateOf(slot, gen)) :
      slot \in Slots, gen \in 1..MaxUploads }

\* The well-formed catalogs of up to MaxDepotLen entries: no two entries
\* share a location.
Catalogs ==
  UNION { { d \in [1..n -> Entries] :
              \A i, j \in 1..n : i # j => d[i].metadata.location # d[j].metadata.location } :
          n \in 0..MaxDepotLen }

\* Instants as ISO strings: the whole milliseconds up to MaxTime, and one
\* microsecond after each.
IsoInstants == { ToISOString(ms) + us : ms \in 0..MaxTime, us \in {0, 1} }

InitUtils ==
  /\ Init
  /\ ~branch
  /\ include_input = "all"
  /\ push_input = "true"
  /\ commit_message_input = DefaultCommitMessage
  /\ target_repo = OkRepo
  /\ source_repo = OkRepo

ApplyPreviousResult ==
  /\ call.fn = "none"
  /\ UNCHANGED << envVars, inputVars, runVars >>
  /\ \E slot \in Slots, updated_at \in IsoInstants, prerelease \in BOOLEAN,
     depot \in Catalogs, depot_last_updated \in 0..MaxTime :
    LET zip == ZipOf(slot, 1, updated_at, prerelease)
    IN call' = [fn |-> "applyPreviousResult",
                zip |-> zip,
                depot_map |-> MapOfDepot(depot),
                depot_last_updated |-> depot_last_updated,
                result |-> applyPreviousResult(zip, MapOfDepot(depot), depot_last_updated)]

GetCommitMessage ==
  /\ call.fn = "none"
  /\ UNCHANGED << envVars, inputVars, runVars >>
  /\ \E old_depot \in Catalogs, new_depot_arg \in Catalogs :
    call' = [fn |-> "getCommitMessage",
             old_depot |-> old_depot,
             new_depot |-> new_depot_arg,
             result |-> getCommitMessage(old_depot, new_depot_arg)]

\* The repository strings of up to MaxNameLen characters.
RepoNames == UNION { [1..n -> {"o", "r", "/"}] : n \in 0..MaxNameLen }

ToRepositoryIdentifier ==
  /\ call.fn = "none"
  /\ UNCHANGED << envVars, inputVars, runVars >>
  /\ \E owner_and_repo_name \in RepoNames :
       call' = [fn |-> "toRepositoryIdentifier",
                owner_and_repo_name |-> owner_and_repo_name,
                result |-> toRepositoryIdentifier(owner_and_repo_name)]

\* Asset names: zip files, and names that only hold "zip" or ".zip".
AssetNames ==
  { << "t" >> \o DotZip, DotZip, << "z", "i", "p" >>, << "t" >> \o DotZip \o << "x" >>,
    << "n", "o", "t", "e", "s" >> }

\* The assets a release can hold, and the releases of up to MaxAssets assets.
ReleaseAssets ==
  { [id |-> << slot, 1 >>, browser_download_url |-> UrlOf(slot),
     updated_at |-> ToISOString(ms), name |-> name] :
      slot \in Slots, ms \in 0..MaxTime, name \in AssetNames }

Releases ==
  { [prerelease |-> prerelease, assets |-> release_assets] :
      prerelease \in BOOLEAN,
      release_assets \in UNION { [1..n -> ReleaseAssets] : n \in 0..MaxAssets } }

GetDownloadableZips ==
  /\ call.fn = "none"
  /\ UNCHANGED << envVars, inputVars, runVars >>
  /\ \E release \in Releases :
       call' = [fn |-> "getDownloadableZips",
                release |-> release,
                result |-> getDownloadableZips(release)]

\* applyPreviousResult applied to a candidate, and again to what it gave.
ApplyPreviousResultTwice ==
  /\ call.fn = "none"
  /\ UNCHANGED << envVars, inputVars, runVars >>
  /\ \E slot \in Slots, updated_at \in IsoInstants, cached \in {Null} \cup Entries,
        depot \in Catalogs, depot_last_updated \in 0..MaxTime :
       LET zip == [ZipOf(slot, 1, updated_at, FALSE) EXCEPT !.result = cached]
           once == applyPreviousResult(zip, MapOfDepot(depot), depot_last_updated)
       IN call' = [fn |-> "applyPreviousResultTwice",
                   zip |-> zip,
                   depot_map |-> MapOfDepot(depot),
                   depot_last_updated |-> depot_last_updated,
                   once |-> once,
                   twice |-> applyPreviousResult(once, MapOfDepot(depot),
                                                 depot_last_updated)]

\* The strings handed to getIncludeStrategy.
StrategyInputs ==
  { "all", "stable-only", "prerelease-only", "", "invalid", "ALL", "stable", "all " }

GetIncludeStrategy ==
  /\ call.fn = "none"
  /\ UNCHANGED << envVars, inputVars, runVars >>
  /\ \E input \in StrategyInputs :
       call' = [fn |-> "getIncludeStrategy",
                input |-> input,
                result |-> getIncludeStrategy(input)]

\* Valid template.pros descriptions: the metadata is any record.
ExternalTemplates ==
  { [py_object |-> ExternalTemplateTag,
     py_state |-> [metadata |-> metadata,
                   name |-> name,
                   supported_kernels |-> "^4.1.0",
                   system_files |-> << "firmware/lib.a" >>,
                   target |-> target,
                   user_files |-> << "src/main.cpp" >>,
                   version |-> version]] :
      metadata \in { [location |-> "self-reported"],
                     [location |-> UrlOf(1), origin |-> "pros-cli"] },
      name \in { "template", "library" },
      target \in { "v5", "cortex" },
      version \in { "1.0.0", "2.0.0" } }

ConvertExternalTemplateToBaseTemplate ==
  /\ call.fn = "none"
  /\ UNCHANGED << envVars, inputVars, runVars >>
  /\ \E slot \in Slots, prerelease \in BOOLEAN, external_template \in ExternalTemplates :
       LET zip == ZipOf(slot, 1, ToISOString(0), prerelease)
       IN call' = [fn |-> "convertExternalTemplateToBaseTemplate",
                   zip |-> zip,
                   external_template |-> external_template,
                   result |-> convertExternalTemplateToBaseTemplate(zip, external_template)]

\* The token input, the github_token input and the GITHUB_TOKEN of the
\* environment: each one absent ('') or set.
GetOctokit ==
  /\ call.fn = "none"
  /\ UNCHANGED << envVars, inputVars, runVars >>
  /\ \E token_input \in { "", "token-input" },
        github_token_input \in { "", "github-token-input" },
        env_github_token \in { "", "env-token" } :
       call' = [fn |-> "getOctokit",
                token_input |-> token_input,
                github_token_input |-> github_token_input,
                env_github_token |-> env_github_token,
                result |-> getOctokit(token_input, github_token_input, env_github_token)]

NextUtils ==
  \/ ApplyPreviousResult
  \/ ApplyPreviousResultTwice
  \/ GetIncludeStrategy
  \/ ConvertExternalTemplateToBaseTemplate
  \/ GetOctokit
  \/ GetCommitMessage
  \/ ToRepositoryIdentifier
  \/ GetDownloadableZips

SpecUtils == InitUtils /\ [][NextUtils]_vars

(***************************************************************************)
(* Properties.                                                             *)
(***************************************************************************)
\* listReleases has answered in the current run.
Listed ==
  \E i \in DOMAIN calls : calls[i].api = "listReleases" /\ calls[i].status = 200

\* The run went through its candidate pipeline and is over.
RunCompleted ==
  /\ pc = "idle"
  /\ outcome \in {"uptodate", "skippush", "pushed", "pushfailed"}

\* The candidates of the current run that pass the inclusion filter.
IncludedCandidates == Range(Included(AllZips(releases), include_strategy))

\* The candidate is strictly later than the depot the run read.
NewerThanDepot(zip) == zip.updated_at > ToISOString(curr_depot_last_updated)

\* The difference of two catalogs, by location and content.
AddedIn(old, new) ==
  {i \in DOMAIN new : \A j \in DOMAIN old : old[j].metadata.location # new[i].metadata.location}

UpdatedIn(old, new) ==
  {i \in DOMAIN new : \E j \in DOMAIN old :
     old[j].metadata.location = new[i].metadata.location /\ old[j] # new[i]}

RemovedIn(old, new) ==
  {j \in DOMAIN old : \A i \in DOMAIN new : new[i].metadata.location # old[j].metadata.location}

SingleAddition(old, new) ==
  /\ Cardinality(AddedIn(old, new)) = 1
  /\ UpdatedIn(old, new) = {}
  /\ RemovedIn(old, new) = {}

IsReleaseMessage(m) == Len(m) = 2 /\ m[1] = "Release version "

\* C1: with a previous catalog file obtained, a candidate that is not newer
\* than the depot and has no entry in the previous catalog is never fetched
\* in that run.
C1_ExcludedNeverFetched ==
  (Listed /\ curr_depot_file # Null) =>
    \A zip \in IncludedCandidates :
      (~NewerThanDepot(zip) /\ getPreviousResult(zip, curr_depot_map) = Null)
        => zip.asset_id \notin Fetched(calls)

\* C2: every candidate that passes the inclusion filter and is strictly newer
\* than the depot has a null result after cache resolution and is fetched in
\* that run, with or without an entry in the previous catalog.
C2_NewerAlwaysFetched ==
  (Listed /\ RunCompleted) =>
    \A zip \in IncludedCandidates :
      NewerThanDepot(zip) =>
        /\ \E i \in DOMAIN zips : zips[i].asset_id = zip.asset_id /\ zips[i].result = Null
        /\ zip.asset_id \in Fetched(calls)

\* What the resolver is to give for a candidate: null when updated_at is
\* strictly later than depot_last_updated, the map's entry for its
\* download_url otherwise (null without one).
ResolvedAsStated(c) ==
  LET url == c.zip.download_url
      entry == IF url \in DOMAIN c.depot_map THEN c.depot_map[url] ELSE Null
  IN IF c.zip.updated_at > ToISOString(c.depot_last_updated)
     THEN c.result.result = Null
     ELSE c.result.result = entry

\* C3: for every candidate, map and depot timestamp, applyPreviousResult
\* gives result = null when updated_at is strictly later than
\* depot_last_updated and otherwise the map's entry for its download_url
\* (null without one); at exactly depot_last_updated the entry is reused.
C3_ApplyPreviousResult ==
  call.fn = "applyPreviousResult" => ResolvedAsStated(call)

\* The same for the candidates whose updated_at is a whole millisecond, the
\* resolution of a Date: there the rule and its tie-break hold.
ApplyPreviousResultOnDates ==
  (call.fn = "applyPreviousResult" /\ call.zip.updated_at % TicksPerMs = 0) =>
    ResolvedAsStated(call)

\* C4: without a previous catalog file every candidate that passes the
\* inclusion filter is kept with a null result, and is fetched by the end of
\* the run.
C4_FirstRunFetchesAll ==
  (Listed /\ curr_depot_file = Null) =>
    /\ zips = Included(AllZips(releases), include_strategy)
    /\ RunCompleted =>
         \A zip \in IncludedCandidates : zip.asset_id \in Fetched(calls)

C4_Witness ==
  /\ Listed /\ RunCompleted /\ curr_depot_file = Null
  /\ \E zip \in IncludedCandidates :
       NewDate(zip.updated_at) > Epoch /\ zip.asset_id \in Fetched(calls)
  /\ \E zip \in IncludedCandidates :
       NewDate(zip.updated_at) = Epoch /\ zip.asset_id \in Fetched(calls)

C6_ReusedEntryIsCurrent ==
  \A i \in DOMAIN zips :
    zips[i].result # Null =>
      zips[i].result =
        convertExternalTemplateToBaseTemplate(
          zips[i], ExternalTemplateOf(zips[i].asset_id[1], zips[i].asset_id[2]))

\* What the resolver does ensure: a previous entry is reused only for a
\* candidate whose updated_at is not later than the last-modified time of
\* the depot file the run read, and a candidate with a previous entry whose
\* updated_at is strictly later than that time gets a null result and is
\* fetched again.
ReuseByCommitTime ==
  Listed =>
    /\ \A i \in DOMAIN zips :
         zips[i].result # Null =>
           /\ ~NewerThanDepot(zips[i])
           /\ zips[i].download_url \in DOMAIN curr_depot_map
           /\ zips[i].result = curr_depot_map[zips[i].download_url]
    /\ \A zip \in IncludedCandidates :
         (zip.download_url \in DOMAIN curr_depot_map /\ NewerThanDepot(zip)) =>
           /\ \E i \in DOMAIN zips : zips[i].asset_id = zip.asset_id /\ zips[i].result = Null
           /\ RunCompleted => zip.asset_id \in Fetched(calls)

\* C7: over well-formed catalogs getCommitMessage gives "Release version <v>"
\* exactly when one new entry's location is absent from old, no new entry
\* differs from the old entry of its location, and no old location is
\* missing from new; otherwise "Update one or more version(s)".
C7_CommitMessageForm ==
  call.fn = "getCommitMessage" =>
    IF SingleAddition(call.old_depot, call.new_depot)
    THEN IsReleaseMessage(call.result)
    ELSE call.result = GenericMessage

C7_Witness ==
  /\ call.fn = "getCommitMessage"
  /\ call.old_depot # <<>>
  /\ SingleAddition(call.old_depot, call.new_depot)
  /\ IsReleaseMessage(call.result)

\* C8: the version in a "Release version <v>" message is that of the added
\* entry, wherever it stands in the new catalog.
C8_VersionOfAddedEntry ==
  (call.fn = "getCommitMessage" /\ IsReleaseMessage(call.result)) =>
    \A i \in AddedIn(call.old_depot, call.new_depot) :
      call.result = ReleaseMessage(call.new_depot[i].version)

C10_BootstrapOnlyAfterBranchNotFound ==
  (\E i \in DOMAIN calls : calls[i].api \in {"createTree", "createCommit", "createRef"}) =>
    \E j \in DOMAIN calls : calls[j].api = "getBranch" /\ calls[j].status = 404

\* The calls that pushFile makes after getBranch.
WriteCalls == {"createOrUpdateFileContents"}

BootstrapCalls == {"createTree", "createCommit", "createRef"}

PublishCalls == {"getBranch"} \cup WriteCalls \cup BootstrapCalls

\* C11: when getBranch fails with an error other than not-found, pushFile
\* returns false (the run ends as failed to push) and neither the file write
\* nor any bootstrap call is made.
C11_BranchErrorFailsPublish ==
  \A i \in DOMAIN calls :
    (calls[i].api = "getBranch" /\ calls[i].status \notin {200, 404}) =>
      /\ pc = "idle" /\ outcome = "pushfailed"
      /\ \A j \in DOMAIN calls : calls[j].api \notin WriteCalls \cup BootstrapCalls

C11_Witness ==
  /\ \E i \in DOMAIN calls : calls[i].api = "getBranch" /\ calls[i].status = 403
  /\ \E i \in DOMAIN calls : calls[i].api = "getReleaseAsset"
  /\ outcome = "pushfailed"

\* C12: on the bootstrap path the tree holds exactly the catalog file and has
\* no base tree, the commit is on that tree with no parents and is created
\* only after the tree was, the ref points at that commit and is created only
\* after the commit was; a failed step is the last call and pushFile returns
\* false, and a bootstrap returns true only after the ref was created.
C12_BootstrapInOrder ==
  /\ \A i \in DOMAIN calls :
       /\ calls[i].api = "createTree" =>
            LET args == calls[i].arg[1]
            IN /\ args.base_tree = Null
               /\ Len(args.tree) = 1
               /\ args.tree[1].path = push_args.path
               /\ args.tree[1].content = push_args.content
       /\ calls[i].api = "createCommit" =>
            /\ i > 1
            /\ calls[i - 1].api = "createTree" /\ calls[i - 1].status = 201
            /\ calls[i].arg[1].tree = HashOf(calls[i - 1].arg[1])
            /\ calls[i].arg[1].parents = <<>>
       /\ calls[i].api = "createRef" =>
            /\ i > 1
            /\ calls[i - 1].api = "createCommit" /\ calls[i - 1].status = 201
            /\ calls[i].arg[1].sha = HashOf(calls[i - 1].arg[1])
       /\ (calls[i].api \in BootstrapCalls /\ calls[i].status # 201) =>
            /\ i = Len(calls)
            /\ pc = "idle" /\ outcome = "pushfailed"
  /\ (pc = "idle" /\ outcome = "pushed"
        /\ \E i \in DOMAIN calls : calls[i].api \in BootstrapCalls) =>
       /\ calls[Len(calls)].api = "createRef"
       /\ calls[Len(calls)].status = 201

C12_Witness ==
  /\ pc = "idle" /\ outcome = "pushed"
  /\ Len(calls) >= 3
  /\ calls[Len(calls)].api = "createRef" /\ calls[Len(calls)].status = 201
  /\ calls[Len(calls) - 1].api = "createCommit"
  /\ calls[Len(calls) - 2].api = "createTree"
  /\ branch /\ file # Null /\ file.content = push_args.content

\* C13: the file write carries the hash of the previous file that the run
\* read exactly when a previous file was obtained, and no hash otherwise.
C13_WriteCarriesPreviousHash ==
  \A i \in DOMAIN calls :
    calls[i].api = "createOrUpdateFileContents" =>
      IF curr_depot_file # Null
      THEN calls[i].arg[1].sha = curr_depot_file.sha
      ELSE calls[i].arg[1].sha = Null

C13_Witness ==
  /\ curr_depot_file # Null
  /\ \E i \in DOMAIN calls :
       /\ calls[i].api = "createOrUpdateFileContents"
       /\ calls[i].status = 200
       /\ calls[i].arg[1].sha = curr_depot_file.sha

\* C14: a run that aborts on an invalid include strategy or a malformed
\* target or source repository has made no external call.
C14_AbortBeforeAnyCall ==
  (pc = "idle" /\ outcome = "threw") => calls = <<>>

\* C15: when listReleases fails the run is over and reported as failed, no
\* asset is fetched, no depot is output and no publish call is made.
C15_ListFailureEndsRun ==
  \A i \in DOMAIN calls :
    (calls[i].api = "listReleases" /\ calls[i].status # 200) =>
      /\ pc = "idle" /\ outcome = "listfailed"
      /\ output = Null
      /\ \A j \in DOMAIN calls :
           calls[j].api \notin {"getReleaseAsset"} \cup PublishCalls

C15_Witness ==
  /\ \E i \in DOMAIN calls : calls[i].api = "listReleases" /\ calls[i].status # 200
  /\ curr_depot_file # Null
  /\ run_no = 2

\* The run went through its fetch loop and generated a depot.
DepotGenerated ==
  pc = "idle" /\ outcome \in {"skippush", "pushed", "pushfailed"}

\* The previous entries the run reuses, and the conversions of the
\* descriptors it fetched and validated.
ReusedEntries ==
  {zips[i].result : i \in {j \in DOMAIN zips : zips[j].result # Null}}

ConvertedEntries ==
  {convertExternalTemplateToBaseTemplate(
     zips[i], ExternalTemplateOf(zips[i].asset_id[1], zips[i].asset_id[2])) :
     i \in {j \in DOMAIN zips :
              \E k \in DOMAIN calls :
                /\ calls[k].api = "getReleaseAsset"
                /\ calls[k].arg = zips[j].asset_id
                /\ calls[k].yield = "template"}}

\* C16: a candidate whose download fails, whose archive has no descriptor or
\* whose descriptor is invalid gives no entry and does not end the run: every
\* candidate is processed, and the new catalog holds exactly the reused
\* previous entries and the conversions of the descriptors fetched and
\* validated in this run.
C16_FailuresAreSkipped ==
  DepotGenerated =>
    /\ Len(fetched_templates) = Len(zips)
    /\ \A i \in DOMAIN zips : zips[i].result = Null => zips[i].asset_id \in Fetched(calls)
    /\ Range(new_depot) = ReusedEntries \cup ConvertedEntries
    /\ \A asset_id \in FetchedInVain(calls) :
         \A k \in DOMAIN new_depot : new_depot[k].metadata.location # UrlOf(asset_id[1])

C16_Witness ==
  /\ DepotGenerated
  /\ \E i, j \in DOMAIN fetched_templates :
       i < j /\ fetched_templates[i] = Null /\ fetched_templates[j] # Null
  /\ Len(new_depot) = 1

\* C17: when the push input is not 'true' no publish call is made, and a run
\* that generates a depot ends with the depot output set to the generated
\* JSON.
C17_NoPublishWithoutPush ==
  push_input # "true" =>
    /\ \A i \in DOMAIN calls : calls[i].api \notin PublishCalls
    /\ DepotGenerated =>
         /\ outcome = "skippush"
         /\ output = StringifyDepot(NonNull(fetched_templates))

C17_Witness ==
  /\ push_input = "yes"
  /\ DepotGenerated
  /\ new_depot # <<>>
  /\ output = StringifyDepot(new_depot)

\* The commit_message input with every %MESSAGE% replaced by the generated
\* message.
ReplaceMessage(template, message) ==
  Flat([i \in DOMAIN template |->
          IF template[i] = "%MESSAGE%" THEN message ELSE << template[i] >>])

\* C18: the commit message handed to pushFile is the commit_message input
\* with every %MESSAGE% replaced by the generated message.
C18_CommitMessageFromInput ==
  push_args.pushing =>
    push_args.commit_message =
      ReplaceMessage(commit_message_input, getCommitMessage(curr_depot, new_depot))

\* The places of the '/' characters of a string, the first of them, and the
\* first after it (one past the end of the string when it is the only one).
SlashesOf(str) == {i \in DOMAIN str : str[i] = "/"}

FirstSlash(str) == CHOOSE i \in SlashesOf(str) : \A j \in SlashesOf(str) : i <= j

SecondSlash(str) ==
  LET later == SlashesOf(str) \ {FirstSlash(str)}
  IN IF later = {} THEN Len(str) + 1
     ELSE CHOOSE i \in later : \A j \in later : i <= j

ZipAssets(release_assets) ==
  {i \in DOMAIN release_assets :
     LET name == release_assets[i].name
         n == Len(name)
     IN /\ n >= 4
        /\ name[n - 3] = "." /\ name[n - 2] = "z" /\ name[n - 1] = "i" /\ name[n] = "p"}

\* C20: getDownloadableZips gives one candidate for each asset whose name
\* ends in ".zip", in the assets' order, with asset_id, download_url and
\* updated_at of the asset, the release's prerelease and a null result, and
\* nothing for any other asset.
C20_GetDownloadableZips ==
  call.fn = "getDownloadableZips" =>
    LET release_assets == call.release.assets
        kept == ZipAssets(release_assets)
    IN /\ Len(call.result) = Cardinality(kept)
       /\ \A i \in kept :
            call.result[Cardinality({j \in kept : j <= i})] =
              [asset_id |-> release_assets[i].id,
               download_url |-> release_assets[i].browser_download_url,
               updated_at |-> release_assets[i].updated_at,
               prerelease |-> call.release.prerelease,
               result |-> Null]

C20_Witness ==
  /\ call.fn = "getDownloadableZips"
  /\ call.release.prerelease
  /\ Len(call.release.assets) = 2
  /\ call.release.assets[1].name = << "z", "i", "p" >>
  /\ call.release.assets[2].name = << "t" >> \o DotZip
  /\ Len(call.result) = 1
  /\ call.result[1].asset_id = call.release.assets[2].id

\* C21: getIncludeStrategy returns its input for 'all', 'stable-only' and
\* 'prerelease-only' and throws for every other string, the empty one
\* included.
C21_GetIncludeStrategy ==
  call.fn = "getIncludeStrategy" =>
    IF call.input \in { "all", "stable-only", "prerelease-only" }
    THEN ~call.result.threw /\ call.result.value = call.input
    ELSE call.result.threw

C21_Witness ==
  /\ call.fn = "getIncludeStrategy"
  /\ call.input = ""
  /\ call.result.threw

\* C23: the entry has name, supported_kernels, target and version of the
\* description, the candidate's download_url as its only metadata, the
\* BaseTemplate tag, and nothing else.
C23_ConvertedEntry ==
  call.fn = "convertExternalTemplateToBaseTemplate" =>
    LET template_data == call.external_template.py_state
    IN /\ DOMAIN call.result =
            { "metadata", "name", "py_object", "supported_kernels", "target", "version" }
       /\ call.result.name = template_data.name
       /\ call.result.supported_kernels = template_data.supported_kernels
       /\ call.result.target = template_data.target
       /\ call.result.version = template_data.version
       /\ call.result.py_object = BaseTemplateTag
       /\ DOMAIN call.result.metadata = { "location" }
       /\ call.result.metadata.location = call.zip.download_url

C23_Witness ==
  /\ call.fn = "convertExternalTemplateToBaseTemplate"
  /\ "origin" \in DOMAIN call.external_template.py_state.metadata
  /\ call.external_template.py_state.metadata.location # call.zip.download_url
  /\ call.result.metadata = [location |-> call.zip.download_url]

\* C24: applyPreviousResult applied to its own result, with the same map and
\* timestamp, gives that result again.
C24_ApplyPreviousResultIdempotent ==
  call.fn = "applyPreviousResultTwice" => call.twice = call.once

C24_Witness ==
  /\ call.fn = "applyPreviousResultTwice"
  /\ call.zip.result = Null
  /\ call.once.result # Null
  /\ call.twice = call.once

\* C25: a candidate whose updated_at is one microsecond after
\* depot_last_updated gets a null result, also with an entry for it in the
\* previous catalog.
C25_OneMicrosecondLaterIsNewer ==
  (/\ call.fn = "applyPreviousResult"
   /\ call.zip.updated_at = ToISOString(call.depot_last_updated) + 1
   /\ call.zip.download_url \in DOMAIN call.depot_map) =>
    call.result.result = Null

\* C28: the client authenticates with the token input when it is provided.
C28_AuthIsTokenInput ==
  (call.fn = "getOctokit" /\ call.token_input # "") =>
    call.result.auth = call.token_input

\* The slot whose asset has the download URL.
SlotOfUrl(url) == CHOOSE slot \in Slots : UrlOf(slot) = url

\* The strategy of the current run bars the assets of the slot's release.
Barred(slot) ==
  \/ include_strategy = "stable-only" /\ IsPrerelease(ReleaseOf(slot))
  \/ include_strategy = "prerelease-only" /\ ~IsPrerelease(ReleaseOf(slot))

\* The locations of a catalog.
LocationsOf(depot) == {depot[k].metadata.location : k \in DOMAIN depot}

\* C22: with stable-only no asset of a prerelease, and with prerelease-only
\* no asset of a stable release, is a candidate of the run, is fetched, or has
\* an entry in the new catalog, whatever the previous catalog holds; with all
\* the inclusion filter keeps every candidate.
C22_StrategyBarsCandidates ==
  /\ \A slot \in Slots :
       Barred(slot) =>
         /\ \A i \in DOMAIN zips : zips[i].asset_id[1] # slot
         /\ \A asset_id \in Fetched(calls) : asset_id[1] # slot
         /\ \A k \in DOMAIN fetched_templates :
              fetched_templates[k] # Null =>
                fetched_templates[k].metadata.location # UrlOf(slot)
         /\ UrlOf(slot) \notin LocationsOf(new_depot)
         /\ output # Null => UrlOf(slot) \notin LocationsOf(output.value)
  /\ include_strategy = "all" =>
       Included(AllZips(releases), include_strategy) = AllZips(releases)

C22_Witness ==
  /\ DepotGenerated
  /\ include_strategy = "stable-only"
  /\ \E slot \in Slots :
       /\ IsPrerelease(ReleaseOf(slot))
       /\ UrlOf(slot) \in DOMAIN curr_depot_map
       /\ \E i \in DOMAIN AllZips(releases) :
            AllZips(releases)[i].download_url = UrlOf(slot)
       /\ UrlOf(slot) \notin LocationsOf(new_depot)
  /\ Fetched(calls) # {}

\* No two entries of the catalog have the same location.
DistinctLocations(depot) ==
  \A i, j \in DOMAIN depot :
    depot[i].metadata.location = depot[j].metadata.location => i = j

\* C26: the catalog a run generates, the one it outputs and the one it
\* publishes have pairwise distinct metadata.location values.
C26_DistinctLocations ==
  /\ DistinctLocations(new_depot)
  /\ output # Null => DistinctLocations(output.value)
  /\ push_args.pushing => DistinctLocations(push_args.content.value)
  /\ file # Null => DistinctLocations(file.content.value)

C26_Witness ==
  /\ pc = "idle" /\ outcome = "pushed"
  /\ run_no = 2
  /\ Len(new_depot) = 2
  /\ ReusedEntries # {}
  /\ ConvertedEntries # {}
  /\ file.content.value = new_depot

\* The URLs of the .zip assets of the current release scan that the strategy
\* of the run admits.
AdmittedUrls ==
  UNION { { releases[r].assets[a].browser_download_url :
              a \in {x \in DOMAIN releases[r].assets :
                       EndsWith(releases[r].assets[x].name, DotZip)} } :
            r \in {x \in DOMAIN releases :
                     /\ include_strategy = "stable-only" => ~releases[x].prerelease
                     /\ include_strategy = "prerelease-only" => releases[x].prerelease} }

\* C27: every entry of the catalog a run outputs, reused or converted, has
\* the download_url of a candidate of the run, which is a .zip asset of the
\* current release scan admitted by the strategy; an entry of the previous
\* catalog without such a candidate is not in the new catalog.
C27_LocationIsCandidateUrl ==
  /\ \A k \in DOMAIN new_depot :
       /\ \E i \in DOMAIN zips : zips[i].download_url = new_depot[k].metadata.location
       /\ new_depot[k].metadata.location \in AdmittedUrls
  /\ output # Null => output.value = new_depot
  /\ \A url \in DOMAIN curr_depot_map :
       (\A i \in DOMAIN zips : zips[i].download_url # url) =>
         url \notin LocationsOf(new_depot)

C27_Witness ==
  /\ DepotGenerated
  /\ new_depot # <<>>
  /\ LocationsOf(new_depot) = {zips[i].download_url : i \in DOMAIN zips}
  /\ \E url \in DOMAIN curr_depot_map : \A i \in DOMAIN zips : zips[i].download_url # url

\* The calls of the current run to one API.
CallsTo(api) == {i \in DOMAIN calls : calls[i].api = api}

\* A call of the current run to the API succeeded.
Succeeded(api) == \E i \in CallsTo(api) : calls[i].status \in {200, 201}

\* C29: a pushFile invocation that is over returned true or false and the
\* run has not thrown; it returned true exactly when the file write or
\* createRef succeeded; each of getBranch, the file write, createTree,
\* createCommit and createRef is called at most once; and the file write and
\* a bootstrap call never both succeed.
C29_PushFileEndsOnce ==
  /\ \A api \in PublishCalls : Cardinality(CallsTo(api)) <= 1
  /\ \A api \in BootstrapCalls : ~(Succeeded("createOrUpdateFileContents") /\ Succeeded(api))
  /\ (pc = "idle" /\ CallsTo("getBranch") # {}) =>
       /\ outcome \in {"pushed", "pushfailed"}
       /\ outcome = "pushed" <=>
            (Succeeded("createOrUpdateFileContents") \/ Succeeded("createRef"))

C29_Witness ==
  /\ pc = "idle" /\ outcome = "pushfailed"
  /\ \E i \in CallsTo("createOrUpdateFileContents") : calls[i].status = 404
  /\ Succeeded("createTree") /\ Succeeded("createCommit")
  /\ \E i \in CallsTo("createRef") : calls[i].status = AnyError

\* The calls of the current run that fetch the asset.
FetchesOf(asset_id) ==
  {i \in CallsTo("getReleaseAsset") : calls[i].arg = asset_id}

\* C30: with every external call answered in the end, a run that has started
\* ends, completed or failed; while it runs the loop is within the candidate
\* list and no candidate is fetched twice.
C30_RunEnds ==
  /\ [](/\ Len(fetched_templates) <= Len(zips)
        /\ \A i \in DOMAIN zips : Cardinality(FetchesOf(zips[i].asset_id)) <= 1)
  /\ (pc # "idle") ~> (pc = "idle" /\ outcome # "running")

C30_Witness ==
  /\ pc = "idle" /\ outcome = "pushed"
  /\ run_no = MaxRuns
  /\ Cardinality(Fetched(calls)) = 2

\* The candidate as the listing gave it: its result not looked up yet.
Unresolved(zip) == [zip EXCEPT !.result = Null]

ReadFailed == \E i \in CallsTo("getContent") : calls[i].status # 200

\* C32: after a failed read of the previous file, not found or otherwise, the
\* run is not ended by it (it ends by a throw only on a malformed source
\* repository name) and goes on as a first run: no previous file, an empty
\* previous catalog and map, the epoch as depot_last_updated, every included
\* candidate kept with a null result, and no hash given to pushFile or sent
\* with the write.
C32_ReadFailureIsFirstRun ==
  ReadFailed =>
    /\ curr_depot_file = Null
    /\ curr_depot = <<>>
    /\ curr_depot_map = <<>>
    /\ curr_depot_last_updated = Epoch
    /\ pc # "getFileContent"
    /\ (pc = "idle" /\ outcome = "threw") => toRepositoryIdentifier(source_repo).threw
    /\ Listed => zips = Included(AllZips(releases), include_strategy)
    /\ push_args.pushing => push_args.old_sha = Null
    /\ \A i \in CallsTo("createOrUpdateFileContents") : calls[i].arg[1].sha = Null

C32_Witness ==
  /\ \E i \in CallsTo("getContent") : calls[i].status = AnyError
  /\ run_no = 2
  /\ file # Null /\ file.content.value # <<>>
  /\ \E i \in DOMAIN zips :
       /\ zips[i].updated_at > ToISOString(NewDate(file.date))
       /\ zips[i].asset_id \in Fetched(calls)
  /\ \E i \in CallsTo("createOrUpdateFileContents") : calls[i].arg[1].sha = Null

\* A candidate of the run is left with a null result after the lookup.
SomethingToFetch == \E i \in DOMAIN zips : zips[i].result = Null

\* The URLs of the run's candidates.
CandidateUrls == {zips[i].download_url : i \in DOMAIN zips}

\* C33: when the listing leaves no candidate with a null result, the run is
\* over as up to date, with no fetch, no depot output and no publish call,
\* also when the previous catalog has entries without a candidate; and a run
\* ends as up to date only so.
C33_NothingToFetchEndsRun ==
  /\ (Listed /\ ~SomethingToFetch) =>
       /\ pc = "idle" /\ outcome = "uptodate"
       /\ output = Null /\ new_depot = <<>>
       /\ Fetched(calls) = {}
       /\ ~push_args.pushing
       /\ \A api \in PublishCalls : CallsTo(api) = {}
  /\ (pc = "idle" /\ outcome = "uptodate") => (Listed /\ ~SomethingToFetch)

C33_Witness ==
  /\ pc = "idle" /\ outcome = "uptodate"
  /\ is_push
  /\ zips # <<>>
  /\ \E url \in DOMAIN curr_depot_map : url \notin CandidateUrls
  /\ file # Null /\ LocationsOf(file.content.value) # CandidateUrls

\* C34: a run with push enabled that is left with a candidate to fetch calls
\* pushFile once it has worked through its candidates, and once only, also
\* when the new catalog is the previous one; and pushFile is called in no
\* other run.
C34_PushFileOnce ==
  /\ (Listed /\ SomethingToFetch /\ is_push) =>
       /\ Len(fetched_templates) = Len(zips) => push_args.pushing
       /\ pc = "idle" => Cardinality(CallsTo("getBranch")) = 1
  /\ Cardinality(CallsTo("getBranch")) <= 1
  /\ push_args.pushing => (Listed /\ SomethingToFetch /\ is_push)
  /\ CallsTo("getBranch") # {} => push_args.pushing

C34_Witness ==
  /\ pc = "idle" /\ outcome = "pushed"
  /\ curr_depot # <<>>
  /\ new_depot = curr_depot
  /\ FetchedInVain(calls) # {}
  /\ Cardinality(CallsTo("getBranch")) = 1

\* C35: a candidate with an entry in the previous catalog that is newer than
\* the depot and whose fetch or validation fails in this run has no entry in
\* the new catalog.
C35_NoStaleFallback ==
  \A i \in DOMAIN zips :
    (/\ zips[i].download_url \in DOMAIN curr_depot_map
     /\ NewDate(zips[i].updated_at) > curr_depot_last_updated
     /\ zips[i].asset_id \in FetchedInVain(calls)) =>
      /\ zips[i].result = Null
      /\ i \in DOMAIN fetched_templates => fetched_templates[i] = Null
      /\ zips[i].download_url \notin LocationsOf(new_depot)
      /\ output # Null => zips[i].download_url \notin LocationsOf(output.value)

C35_Witness ==
  /\ pc = "idle" /\ outcome = "pushed"
  /\ \E i \in DOMAIN zips :
       /\ zips[i].download_url \in DOMAIN curr_depot_map
       /\ NewDate(zips[i].updated_at) > curr_depot_last_updated
       /\ zips[i].asset_id \in FetchedInVain(calls)
       /\ zips[i].download_url \notin LocationsOf(file.content.value)

\* The assets fetched in the current run, in the order of the calls.
FetchOrder ==
  LET fetches == SelectSeq(calls, LAMBDA c : c.api = "getReleaseAsset")
  IN [k \in DOMAIN fetches |-> fetches[k].arg]

\* The candidates the loop is through that had no result, in candidate order.
FetchesDue ==
  LET due == SelectSeq(SubSeq(zips, 1, Len(fetched_templates)),
                       LAMBDA zip : zip.result = Null)
  IN [k \in DOMAIN due |-> due[k].asset_id]

\* The place of the URL in a list of candidates.
PlaceOf(url, zs) == CHOOSE k \in DOMAIN zs : zs[k].download_url = url

\* C38: the fetches of a run are those of the candidates with a null result
\* that the loop is through, one per candidate and in candidate order, so
\* the next fetch is issued only when the one before is answered and a
\* candidate with a reused result is not fetched; the candidates are in the
\* order of the listing (releases, then assets), and the entries of the new
\* catalog are in candidate order.
C38_FetchesInCandidateOrder ==
  /\ FetchOrder = FetchesDue
  /\ pc = "createBaseTemplate" => Len(fetched_templates) < Len(zips)
  /\ \A i \in DOMAIN zips : zips[i].result # Null => zips[i].asset_id \notin Fetched(calls)
  /\ \A i, j \in DOMAIN zips :
       i < j => PlaceOf(zips[i].download_url, AllZips(releases))
                  < PlaceOf(zips[j].download_url, AllZips(releases))
  /\ \A k \in DOMAIN fetched_templates :
       fetched_templates[k] # Null =>
         fetched_templates[k].metadata.location = zips[k].download_url
  /\ \A a, b \in DOMAIN new_depot :
       a < b => PlaceOf(new_depot[a].metadata.location, zips)
                  < PlaceOf(new_depot[b].metadata.location, zips)

C38_Witness ==
  /\ DepotGenerated
  /\ Len(FetchOrder) = 2
  /\ FetchOrder[1] = zips[1].asset_id /\ FetchOrder[2] = zips[2].asset_id
  /\ Len(new_depot) = 2
  /\ new_depot[1].metadata.location = zips[1].download_url
  /\ new_depot[2].metadata.location = zips[2].download_url

\* The file the run read is there but holds no depot.
UnreadableDepot ==
  curr_depot_file # Null /\ curr_depot_file.content.json # "depot"

\* C36: when the previous file is there but is no JSON or no depot, the
\* previous catalog and its map are empty and no entry is reused, while
\* depot_last_updated is the file's last-modified time, the exclusion filter
\* is applied with it (as coded: a candidate newer than it is dropped), and
\* pushFile gets, and the write carries, the file's hash.
C36_UnreadableDepot ==
  UnreadableDepot =>
    /\ curr_depot = <<>>
    /\ curr_depot_map = <<>>
    /\ curr_depot_last_updated = curr_depot_file.last_modified
    /\ \A i \in DOMAIN zips : zips[i].result = Null
    /\ Listed =>
         CandidateUrls =
           {zip.download_url : zip \in
              {z \in IncludedCandidates :
                 ~(NewDate(z.updated_at) > curr_depot_file.last_modified)}}
    /\ \A k \in DOMAIN fetched_templates :
         fetched_templates[k] # Null => zips[k].asset_id \in Fetched(calls)
    /\ push_args.pushing => push_args.old_sha = curr_depot_file.sha
    /\ \A i \in CallsTo("createOrUpdateFileContents") :
         calls[i].arg[1].sha = curr_depot_file.sha

C36_Witness ==
  /\ UnreadableDepot
  /\ curr_depot_file.content = NotJSON
  /\ pc = "idle" /\ outcome = "pushed"
  /\ new_depot # <<>>
  /\ Len(zips) < Len(AllZips(releases))

\* The file as the run read it is the file as it is now.
FileAsRead ==
  IF curr_depot_file = Null
  THEN file = Null
  ELSE file # Null /\ file.sha = curr_depot_file.sha

\* C37: with other writers of the branch, a file write of the run succeeds
\* only when the file still has the hash the run read (or is still absent),
\* and createRef only when the branch is still absent; a run whose write is
\* rejected for its hash is over as failed, with that one write and no
\* further publish call.
C37_NoLostUpdate ==
  /\ [][(pc = "createOrUpdateFileContents" /\ outcome' = "pushed") => FileAsRead]_vars
  /\ [][(pc = "createRef" /\ outcome' = "pushed") =>
          (~branch /\ file = Null /\ curr_depot_file = Null)]_vars
  /\ []((\E i \in CallsTo("createOrUpdateFileContents") : calls[i].status \in {409, 422}) =>
          /\ pc = "idle" /\ outcome = "pushfailed"
          /\ Cardinality(CallsTo("createOrUpdateFileContents")) = 1
          /\ \A api \in BootstrapCalls : CallsTo(api) = {})

C37_Witness ==
  /\ pc = "idle" /\ outcome = "pushfailed"
  /\ \E i \in CallsTo("createOrUpdateFileContents") : calls[i].status = 409
  /\ curr_depot_file # Null
  /\ file.sha # curr_depot_file.sha
  /\ file.content # push_args.content

====
